---- MODULE Spec2Model ----
(***************************************************************************)
(* Model of the rust-irc client: the reader thread (reader.rs), the event  *)
(* channel (connection.rs), the dispatch loop (client.rs) with the message *)
(* codec (message.rs), the quoting layers (ctcp.rs) and the client info    *)
(* (info.rs).                                                              *)
(*                                                                         *)
(* A string is a sequence of characters; a character is a TLA+ string of   *)
(* one character, except for the three control bytes that have no TLA+     *)
(* escape, which are written "x14", "x00" and "x01".                       *)
(***************************************************************************)
EXTENDS Integers, Sequences, FiniteSets, TLC

\* ------------------------------------------------------------------------
\* Bounds of the model
\* ------------------------------------------------------------------------
MaxReads == 2    \* read_line calls that return before the end of the stream
MaxSends == 1    \* send_str / send_msg calls of the caller in one session
MaxStops == 1    \* stop calls of the caller in one session
MaxTries == 6    \* read_line calls in the reader-centred specification
MaxQuoteLen == 3 \* length of the strings handed to the quoting functions
MaxParamLen == 3 \* length of the params of a constructed message
MaxOps == 4      \* functions applied to one IrcInfo
MaxTagLen == 5   \* length of the strings handed to extract, has_tag, get_tag
MaxReqs == 2     \* requests combined with one body

\* ------------------------------------------------------------------------
\* Characters
\* ------------------------------------------------------------------------
M_QUOTE == "x14"
NUL     == "x00"
X_DELIM == "x01"
LF      == "\n"
CR      == "\r"
BSLASH  == "\\"
SP      == " "

\* \s of the regex crate and char::is_whitespace, over the ASCII range
IsSpace(c) == c \in {SP, LF, CR, "\t", "\f"}

\* \w of the regex crate, over the ASCII range
IsWord(c) ==
  c \in {"a", "b", "c", "d", "e", "f", "g", "h", "i", "j", "k", "l", "m", "n",
         "o", "p", "q", "r", "s", "t", "u", "v", "w", "x", "y", "z",
         "A", "B", "C", "D", "E", "F", "G", "H", "I", "J", "K", "L", "M", "N",
         "O", "P", "Q", "R", "S", "T", "U", "V", "W", "X", "Y", "Z",
         "0", "1", "2", "3", "4", "5", "6", "7", "8", "9", "_"}

\* ------------------------------------------------------------------------
\* String helpers (std::str)
\* ------------------------------------------------------------------------
Drop(s, n) == SubSeq(s, n + 1, Len(s))

StartsWith(s, p) == Len(s) >= Len(p) /\ SubSeq(s, 1, Len(p)) = p

\* str::replace: every non-overlapping occurrence of from, left to right
RECURSIVE Replace(_, _, _)
Replace(s, from, to) ==
  IF Len(s) < Len(from) THEN s
  ELSE IF StartsWith(s, from)
       THEN to \o Replace(Drop(s, Len(from)), from, to)
       ELSE <<s[1]>> \o Replace(Tail(s), from, to)

\* str::trim_right: strip trailing whitespace
RECURSIVE TrimRight(_)
TrimRight(s) ==
  IF s # <<>> /\ IsSpace(s[Len(s)]) THEN TrimRight(SubSeq(s, 1, Len(s) - 1))
  ELSE s

\* str::trim_left
RECURSIVE TrimLeft(_)
TrimLeft(s) ==
  IF s # <<>> /\ IsSpace(s[1]) THEN TrimLeft(Tail(s)) ELSE s

Trim(s) == TrimLeft(TrimRight(s))

\* index after the maximal run of whitespace that starts at i
RECURSIVE SkipSpace(_, _)
SkipSpace(s, i) ==
  IF i <= Len(s) /\ IsSpace(s[i]) THEN SkipSpace(s, i + 1) ELSE i

\* index after the maximal run of non-whitespace that starts at i
RECURSIVE SkipToken(_, _)
SkipToken(s, i) ==
  IF i <= Len(s) /\ ~IsSpace(s[i]) THEN SkipToken(s, i + 1) ELSE i

\* index of the first LF at or after i, Len(s)+1 when there is none
RECURSIVE FindLF(_, _)
FindLF(s, i) ==
  IF i <= Len(s) /\ s[i] # LF THEN FindLF(s, i + 1) ELSE i

\* ------------------------------------------------------------------------
\* ctcp.rs: the two quoting layers
\* ------------------------------------------------------------------------
M_CNVRT == << << <<M_QUOTE>>, <<M_QUOTE, M_QUOTE>> >>,
              << <<NUL>>,     <<M_QUOTE, "0">> >>,
              << <<LF>>,      <<M_QUOTE, "n">> >>,
              << <<CR>>,      <<M_QUOTE, "r">> >> >>

X_CNVRT == << << <<BSLASH>>,  <<BSLASH, BSLASH>> >>,
              << <<X_DELIM>>, <<BSLASH, "a">> >> >>

\* for conv in table.iter() { s = s.replace( conv.0, conv.1 ) }
RECURSIVE QuoteWith(_, _, _)
QuoteWith(table, k, s) ==
  IF k > Len(table) THEN s
  ELSE QuoteWith(table, k + 1, Replace(s, table[k][1], table[k][2]))

\* for conv in table.iter() { s = s.replace( conv.1, conv.0 ) }
RECURSIVE DequoteWith(_, _, _)
DequoteWith(table, k, s) ==
  IF k > Len(table) THEN s
  ELSE DequoteWith(table, k + 1, Replace(s, table[k][2], table[k][1]))

low_level_quote(trail)   == QuoteWith(M_CNVRT, 1, trail)
low_level_dequote(trail) == DequoteWith(M_CNVRT, 1, trail)
ctcp_quote(trail)        == QuoteWith(X_CNVRT, 1, trail)
ctcp_dequote(trail)      == DequoteWith(X_CNVRT, 1, trail)

\* ------------------------------------------------------------------------
\* message.rs
\* ------------------------------------------------------------------------
SourceNone      == [some |-> FALSE, s |-> <<>>]
SourceSender(s) == [some |-> TRUE, s |-> s]

\* raw_from_data that ends the line at the code when params is empty
raw_from_data_tight(source, code, params) ==
  LET line == IF source.some
              THEN <<":">> \o source.s \o <<SP>> \o code \o <<SP>> \o params
              ELSE code \o <<SP>> \o params
  IN  IF params = <<>> THEN SubSeq(line, 1, Len(line) - 1) ELSE line

\* raw_from_data
raw_from_data(source, code, params) ==
  IF source.some THEN <<":">> \o source.s \o <<SP>> \o code \o <<SP>> \o params
  ELSE code \o <<SP>> \o params

\* Message::new
NewMessage(source, code, params) ==
  [dir |-> "Outgoing", source |-> source, code |-> code, params |-> params,
   raw |-> raw_from_data(source, code, params)]

NoMessage == [ok |-> FALSE,
              msg |-> [dir |-> "Incoming", source |-> SourceNone,
                       code |-> <<>>, params |-> <<>>, raw |-> <<>>]]

\* The tail of the parse regex, (\S+)\s+(.*)\r?$, tried with the code token
\* starting at index c: the token must be non-empty and followed by
\* whitespace, \s+ takes the whole run, and (.*) must reach the end of the
\* input, which it cannot do across a line feed.
ParseFrom(msg, source, c) ==
  LET ce == SkipToken(msg, c)
      p  == SkipSpace(msg, ce)
  IN  IF ce > c /\ p > ce /\ FindLF(msg, p) > Len(msg)
      THEN [ok |-> TRUE,
            msg |-> [dir |-> "Incoming", source |-> source,
                     code |-> SubSeq(msg, c, ce - 1),
                     params |-> SubSeq(msg, p, Len(msg)),
                     raw |-> msg]]
      ELSE NoMessage

\* Message::parse, regex ^(:\S+)?\s*(\S+)\s+(.*)\r?$ with the leftmost-first
\* preferences of the regex crate: the prefix group is tried first, longest
\* first; a prefix shorter than the first token leaves the rest of that
\* token to be the code; only then is the prefix left out.
Message_parse(msg) ==
  LET k == SkipToken(msg, 1) - 1          \* end of the first token
      hasPrefix == k >= 2 /\ msg[1] = ":"
      full  == ParseFrom(msg, SourceSender(SubSeq(msg, 1, k)),
                         SkipSpace(msg, k + 1))
      short == ParseFrom(msg, SourceSender(SubSeq(msg, 1, k - 1)), k)
      bare  == ParseFrom(msg, SourceNone, SkipSpace(msg, 1))
  IN  IF hasPrefix /\ full.ok THEN full
      ELSE IF hasPrefix /\ k >= 3 /\ short.ok THEN short
      ELSE bare

\* Message::nick, regex :([\w]+?) searched in the source: the lazy +? stops
\* after one word character
RECURSIVE NickFrom(_, _)
NickFrom(s, i) ==
  IF i >= Len(s) THEN [some |-> FALSE, s |-> <<>>]
  ELSE IF s[i] = ":" /\ IsWord(s[i + 1]) THEN [some |-> TRUE, s |-> <<s[i + 1]>>]
  ELSE NickFrom(s, i + 1)

Message_nick(m) ==
  IF m.source.some THEN NickFrom(m.source.s, 1)
  ELSE [some |-> FALSE, s |-> <<>>]

\* Message::param, regex (:.*|\S+) iterated over params: the num-th match.
\* A match starts at the next non-whitespace character; from a colon it
\* runs to the end of the line, otherwise to the end of the token.
RECURSIVE ParamFrom(_, _, _)
ParamFrom(params, i, num) ==
  LET b == SkipSpace(params, i)
      e == IF b <= Len(params) /\ params[b] = ":" THEN FindLF(params, b)
           ELSE SkipToken(params, b)
  IN  IF b > Len(params) THEN [some |-> FALSE, s |-> <<>>]
      ELSE IF num = 1 THEN [some |-> TRUE, s |-> SubSeq(params, b, e - 1)]
      ELSE ParamFrom(params, e, num - 1)

\* Message::param that counts its matches from 0
Message_param_from_zero(m, num) ==
  IF num < 0 THEN [some |-> FALSE, s |-> <<>>]
  ELSE ParamFrom(m.params, 1, num + 1)

Message_param(m, num) ==
  IF num < 1 THEN [some |-> FALSE, s |-> <<>>] ELSE ParamFrom(m.params, 1, num)

\* Message::pong with the params left out
Message_pong_bare(m) ==
  [dir |-> "Outgoing", source |-> SourceNone, code |-> <<"P", "O", "N", "G">>,
   params |-> <<>>,
   raw |-> raw_from_data(SourceNone, <<"P", "O", "N", "G">>, <<>>)]

\* Message::pong
Message_pong(m) ==
  [dir |-> "Outgoing", source |-> SourceNone, code |-> <<"P", "O", "N", "G">>,
   params |-> m.params,
   raw |-> raw_from_data(SourceNone, <<"P", "O", "N", "G">>, m.params)]

\* Message::trailing, regex :(.*) searched in params
RECURSIVE FindColon(_, _)
FindColon(s, i) ==
  IF i <= Len(s) /\ s[i] # ":" THEN FindColon(s, i + 1) ELSE i

Message_trailing(m) ==
  LET c == FindColon(m.params, 1)
  IN  IF c > Len(m.params) THEN [some |-> FALSE, s |-> <<>>]
      ELSE [some |-> TRUE, s |-> SubSeq(m.params, c + 1, FindLF(m.params, c) - 1)]

\* the codes Message::target names before KICK
TargetCodes ==
  { <<"J", "O", "I", "N">>, <<"P", "A", "R", "T">>, <<"M", "O", "D", "E">>,
    <<"T", "O", "P", "I", "C">>, <<"I", "N", "V", "I", "T", "E">>,
    <<"P", "R", "I", "V", "M", "S", "G">>, <<"N", "O", "T", "I", "C", "E">>,
    <<"W", "H", "O", "I", "S">>, <<"W", "H", "O", "W", "A", "S">>,
    <<"K", "I", "L", "L">>, <<"P", "I", "N", "G">>, <<"P", "O", "N", "G">>,
    <<"S", "U", "M", "M", "O", "N">>, <<"I", "S", "O", "N">> }

KICK == <<"K", "I", "C", "K">>

\* Message::target
Message_target(m) ==
  IF m.code \in TargetCodes THEN Message_param(m, 1)
  ELSE IF m.code = KICK THEN Message_param(m, 2)
  ELSE Message_param(m, 1)

\* ------------------------------------------------------------------------
\* info.rs
\* ------------------------------------------------------------------------
\* the name lists: a map from channel name to a vector of nicks
EmptyMap == [x \in {} |-> <<>>]
MapPut(m, k, v) == [x \in (DOMAIN m) \cup {k} |-> IF x = k THEN v ELSE m[x]]
MapDel(m, k) == [x \in (DOMAIN m) \ {k} |-> m[x]]

\* IrcInfo::gen
IrcInfo_gen(nick, user, real, chans) ==
  [nick_name |-> nick, user_name |-> user, real_name |-> real,
   channels |-> chans, names |-> EmptyMap, prep_names |-> <<>>]

\* impl Clone for IrcInfo: the staged names are not copied
IrcInfo_clone(self) == [self EXCEPT !.prep_names = <<>>]

\* in_vec: index of the first element equal to el, 0 for None
RECURSIVE InVecFrom(_, _, _)
InVecFrom(v, el, i) ==
  IF i > Len(v) THEN 0 ELSE IF v[i] = el THEN i ELSE InVecFrom(v, el, i + 1)

in_vec(v, el) == InVecFrom(v, el, 1)

\* Vec::remove
VecRemove(v, i) == SubSeq(v, 1, i - 1) \o SubSeq(v, i + 1, Len(v))

\* strip_colon
strip_colon(s) ==
  LET ss == Trim(s) IN IF StartsWith(ss, <<":">>) THEN Tail(ss) ELSE ss

\* str::split_str( " " )
RECURSIVE SplitSpace(_)
SplitSpace(s) ==
  LET i == CHOOSE j \in 1..(Len(s) + 1) :
             /\ (j <= Len(s) => s[j] = SP)
             /\ \A h \in 1..(j - 1) : s[h] # SP
  IN  IF i > Len(s) THEN <<s>>
      ELSE <<SubSeq(s, 1, i - 1)>> \o SplitSpace(Drop(s, i))

\* IrcInfo::get_channel_names
get_channel_names(self, chan) ==
  IF chan \in DOMAIN self.names THEN [some |-> TRUE, v |-> self.names[chan]]
  ELSE [some |-> FALSE, v |-> <<>>]

\* IrcInfo::drop_channel_names
drop_channel_names(self, ch) ==
  LET chan == strip_colon(ch)
  IN  IF chan \in DOMAIN self.names
      THEN [self EXCEPT !.names = MapDel(self.names, chan)]
      ELSE self

\* IrcInfo::add_to_channel
add_to_channel(self, ch, ni) ==
  LET chan == strip_colon(ch)
      nick == strip_colon(ni)
  IN  IF chan \in DOMAIN self.names
      THEN [self EXCEPT !.names = MapPut(self.names, chan,
                                         Append(self.names[chan], nick))]
      ELSE self

\* IrcInfo::remove_from_channel
remove_from_channel(self, ch, ni) ==
  LET chan == strip_colon(ch)
      nick == strip_colon(ni)
  IN  IF chan \in DOMAIN self.names /\ in_vec(self.names[chan], nick) > 0
      THEN [self EXCEPT !.names =
              MapPut(self.names, chan,
                     VecRemove(self.names[chan], in_vec(self.names[chan], nick)))]
      ELSE self

\* IrcInfo::prep_channel_names
prep_channel_names(self, msg) ==
  LET t == Message_trailing(msg)
  IN  IF t.some
      THEN [self EXCEPT !.prep_names = self.prep_names \o SplitSpace(TrimRight(t.s))]
      ELSE self

\* set_channel_names that extends the list the channel already has
set_channel_names_extending(self, ch) ==
  LET chan == strip_colon(ch)
  IN  [self EXCEPT !.names = MapPut(self.names, chan,
                                    (IF chan \in DOMAIN self.names
                                     THEN self.names[chan] ELSE <<>>) \o self.prep_names),
                   !.prep_names = <<>>]

\* IrcInfo::set_channel_names
set_channel_names(self, ch) ==
  LET chan == strip_colon(ch)
  IN  [self EXCEPT !.names = MapPut(self.names, chan, self.prep_names),
                   !.prep_names = <<>>]

\* Code words the handlers match on
NICK == <<"N", "I", "C", "K">>
JOIN == <<"J", "O", "I", "N">>
PART == <<"P", "A", "R", "T">>
PING == <<"P", "I", "N", "G">>
NOTICE == <<"N", "O", "T", "I", "C", "E">>
QUIT == <<"Q", "U", "I", "T">>
RPL_WELCOME == <<"0", "0", "1">>
RPL_NAMREPLY == <<"3", "5", "3">>
RPL_ENDOFNAMES == <<"3", "6", "6">>
ChannelErrors == { <<"4", "0", "3">>, <<"4", "0", "5">>, <<"4", "3", "7">>,
                   <<"4", "7", "1">>, <<"4", "7", "3">>, <<"4", "7", "4">>,
                   <<"4", "7", "5">>, <<"4", "7", "6">> }

\* An outcome of code that can panic: the value, or a panic (an unwrap of
\* None unwinds the thread that runs it)
Done(i)  == [panic |-> FALSE, info |-> i]
Panic(i) == [panic |-> TRUE, info |-> i]

\* the channel removal shared by a self PART and the channel error numerics
LeaveChannel(self, ch) ==
  LET i == in_vec(self.channels, ch)
  IN  IF i > 0
      THEN [drop_channel_names(self, ch) EXCEPT
              !.channels = VecRemove(self.channels, i)]
      ELSE self

\* IrcInfo::update_info
update_info(self, msg) ==
  LET p1   == Message_param(msg, 1)
      n    == Message_nick(msg)
      nick == IF n.some THEN n.s ELSE <<>>     \* unwrap_or( "" )
  IN  IF msg.code = NICK THEN
        IF nick = self.nick_name
        THEN IF p1.some THEN Done([self EXCEPT !.nick_name = p1.s])
             ELSE Panic(self)
        ELSE Done(self)
      ELSE IF msg.code = JOIN THEN
        IF ~p1.some THEN Panic(self)
        ELSE IF nick = self.nick_name
        THEN IF in_vec(self.channels, p1.s) = 0
             THEN Done([self EXCEPT !.channels = Append(self.channels, p1.s)])
             ELSE Done(self)
        ELSE Done(add_to_channel(self, p1.s, nick))
      ELSE IF msg.code = PART THEN
        IF ~p1.some THEN Panic(self)
        ELSE IF nick = self.nick_name THEN Done(LeaveChannel(self, p1.s))
        ELSE Done(remove_from_channel(self, p1.s, nick))
      ELSE IF msg.code \in ChannelErrors THEN
        IF ~p1.some THEN Panic(self) ELSE Done(LeaveChannel(self, p1.s))
      ELSE Done(self)

\* ------------------------------------------------------------------------
\* ctcp.rs: requests, and messages that carry them
\* ------------------------------------------------------------------------
PRIVMSG == <<"P", "R", "I", "V", "M", "S", "G">>

\* Message::is_message
Message_is_message(m) == m.code \in {PRIVMSG, NOTICE}

\* CtcpRequest::new
CtcpRequest(cmd, pms) == [command |-> cmd, params |-> pms]

\* CtcpRequest::to_string
CtcpRequest_to_string(r) ==
  IF Len(r.params) > 0
  THEN <<X_DELIM>> \o r.command \o <<SP>> \o r.params \o <<X_DELIM>>
  ELSE <<X_DELIM>> \o r.command \o <<X_DELIM>>

\* combine
combine(s, cmd) == s \o CtcpRequest_to_string(cmd)

\* combine_msg without the look at the code
combine_msg_any(msg, cmd) ==
  NewMessage(msg.source, msg.code, combine(msg.params, cmd))

\* combine_msg
combine_msg(msg, cmd) ==
  IF ~Message_is_message(msg) THEN msg
  ELSE NewMessage(msg.source, msg.code, combine(msg.params, cmd))

\* parse_cmd, its loop: every word that differs from cmd, each followed by
\* a space
RECURSIVE ParamsSkipping(_, _, _)
ParamsSkipping(data, cmd, k) ==
  IF k > Len(data) THEN <<>>
  ELSE IF data[k] = cmd THEN ParamsSkipping(data, cmd, k + 1)
  ELSE data[k] \o <<SP>> \o ParamsSkipping(data, cmd, k + 1)

\* parse_cmd
parse_cmd(s) ==
  LET data == SplitSpace(s)
      cmd  == data[1]
      pms  == ParamsSkipping(data, cmd, 1)
  IN  CtcpRequest(cmd, IF Len(pms) > 0 THEN SubSeq(pms, 1, Len(pms) - 1) ELSE pms)

\* extract, its loop from character i on
RECURSIVE ExtractFrom(_, _, _, _, _, _)
ExtractFrom(s, i, newstring, section, intag, cmds) ==
  IF i > Len(s) THEN [str |-> newstring \o section, cmds |-> cmds]
  ELSE IF s[i] = X_DELIM
       THEN ExtractFrom(s, i + 1,
                        IF intag THEN newstring ELSE newstring \o section,
                        <<>>, ~intag,
                        IF intag THEN Append(cmds, parse_cmd(section)) ELSE cmds)
       ELSE ExtractFrom(s, i + 1, newstring, Append(section, s[i]), intag, cmds)

\* extract that closes a tag left open at the end of the string
extract_closing(s) ==
  IF Cardinality({ j \in 1..Len(s) : s[j] = X_DELIM }) % 2 = 1
  THEN ExtractFrom(s \o <<X_DELIM>>, 1, <<>>, <<>>, FALSE, <<>>)
  ELSE ExtractFrom(s, 1, <<>>, <<>>, FALSE, <<>>)

\* extract
extract(s) == ExtractFrom(s, 1, <<>>, <<>>, FALSE, <<>>)

\* tag
tag(s) == <<X_DELIM>> \o s \o <<X_DELIM>>

\* The regex of has_tag and get_tag, \x01<t> ?([^\x01]*)\x01, matches at i:
\* a delimiter, the characters of t, and a delimiter somewhere after them
\* (the optional space and the class take what lies between)
TagMatchAt(s, t, i) ==
  /\ s[i] = X_DELIM
  /\ i + Len(t) <= Len(s)
  /\ SubSeq(s, i + 1, i + Len(t)) = t
  /\ \E j \in (i + Len(t) + 1)..Len(s) : s[j] = X_DELIM

\* has_tag
has_tag(s, t) == \E i \in 1..Len(s) : TagMatchAt(s, t, i)

\* get_tag: the leftmost match; the greedy optional space is taken when
\* there is one, and capture 1 runs to the next delimiter
get_tag(s, t) ==
  IF ~has_tag(s, t) THEN [some |-> FALSE, r |-> CtcpRequest(<<>>, <<>>)]
  ELSE LET i == CHOOSE k \in 1..Len(s) :
                  TagMatchAt(s, t, k) /\ \A h \in 1..(k - 1) : ~TagMatchAt(s, t, h)
           b == i + Len(t) + 1
           c == IF s[b] = SP THEN b + 1 ELSE b
           j == CHOOSE k \in c..Len(s) :
                  s[k] = X_DELIM /\ \A h \in c..(k - 1) : s[h] # X_DELIM
       IN  [some |-> TRUE, r |-> CtcpRequest(t, SubSeq(s, c, j - 1))]

\* extract_msg
extract_msg(msg) ==
  IF ~Message_is_message(msg) THEN [msg |-> msg, cmds |-> <<>>]
  ELSE LET e == extract(msg.params)
       IN  [msg |-> NewMessage(msg.source, msg.code, e.str), cmds |-> e.cmds]

\* ------------------------------------------------------------------------
\* Inputs: configurations, lines on the wire, lines of the caller
\* ------------------------------------------------------------------------
\* what the caller hands to Client::connect: the password and the channels
Configs == { [pass |-> <<>>, chans |-> << <<"#", "a">>, <<"#", "b">> >>],
             [pass |-> <<"p", "w">>, chans |-> << <<"#", "b">> >>] }
OwnNick == <<"a">>
OwnUser == <<"u">>
OwnReal == <<"r", " ", "n">>

InNotice == <<"N", "O", "T", "I", "C", "E", " ", "*", " ", ":", "h", "i", CR, LF>>
InPingTrail == <<"P", "I", "N", "G", " ", ":", "a", " ", "b", CR, LF>>
InWelcome == <<"0", "0", "1", " ", "a", " ", ":", "W", CR, LF>>
InShortEndOfNames == <<"3", "6", "6", " ", "a", CR, LF>>
InSelfNick == <<":", "a", "!", "u", "@", "h", " ", "N", "I", "C", "K", " ", "b", CR, LF>>
InNoCode == <<"x", CR, LF>>
\* a PING whose parameter is a low-level-quoted M_QUOTE
InPingQuoted == <<"P", "I", "N", "G", " ", M_QUOTE, M_QUOTE, CR, LF>>

\* the lines the transport can deliver to read_line
InLines == { InNotice, InPingTrail, InWelcome, InShortEndOfNames, InSelfNick,
             InNoCode, InPingQuoted }

OutJoin == <<"J", "O", "I", "N", " ", "#", "c">>
OutCtcp == <<"P", "R", "I", "V", "M", "S", "G", " ", "b", " ", ":", X_DELIM, "A", X_DELIM>>

\* the lines the caller can hand to send_str / send_msg
OutLines == { OutJoin, OutCtcp }

AbortReader == <<"i", "r", "c", " ", "r", "e", "a", "d", "e", "r", " ", "c", "l", "o", "s", "e", "d">>
AbortStop == <<"s", "t", "o", "p", " ", "c", "a", "l", "l", "e", "d", " ", "f", "r", "o", "m", " ", "c", "l", "i", "e", "n", "t">>

\* ------------------------------------------------------------------------
\* connection.rs: ConnEvent and the pre-seeded queue
\* ------------------------------------------------------------------------
Send(s)  == [ev |-> "Send", s |-> s]
Recv(s)  == [ev |-> "Recv", s |-> s]
Abort(s) == [ev |-> "Abort", s |-> s]

\* ServerConnection::connect without the PASS message
connect_events_unseeded(p) == <<>>

\* ServerConnection::connect: the channel as connect leaves it
connect_events(p) ==
  IF p # <<>> THEN << Send(<<"P", "A", "S", "S", " ">> \o p) >> ELSE <<>>

\* ------------------------------------------------------------------------
\* reader.rs
\* ------------------------------------------------------------------------
IRC_TRY_INITIAL  == 0
IRC_TRY_SUCCESS  == 0
IRC_TRY_FAILURE  == 1
IRC_TRY_LIMIT    == 5
IRC_READ_TIMEOUT == 5
IRC_READ_MULT    == 2

\* handle_read_success that leaves try as it was after a delivered line
handle_read_success_keeping(sent, try) ==
  IF sent THEN try ELSE IRC_TRY_LIMIT

\* IrcReader::handle_read_success; sent tells whether chan.send returned Ok
handle_read_success(sent, try) ==
  IF sent THEN IRC_TRY_SUCCESS ELSE IRC_TRY_LIMIT

\* handle_read_failure that counts an EndOfFile as one more failure
handle_read_failure_counting(eof, try) == (try + IRC_TRY_FAILURE) % 256

\* IrcReader::handle_read_failure; try is a u8
handle_read_failure(eof, try) ==
  IF eof THEN IRC_TRY_LIMIT ELSE (try + IRC_TRY_FAILURE) % 256

\* get_next_try that keeps the timeout it is given after a success
get_next_try_keeping(try, time) ==
  IF try >= IRC_TRY_LIMIT THEN [some |-> FALSE, t |-> time, sleep |-> 0]
  ELSE IF try > IRC_TRY_SUCCESS
       THEN [some |-> TRUE, t |-> time * IRC_READ_MULT, sleep |-> time]
       ELSE [some |-> TRUE, t |-> time, sleep |-> 0]

\* IrcReader::get_next_try; sleep is the time slept, 0 when it does not sleep
get_next_try(try, time) ==
  IF try >= IRC_TRY_LIMIT THEN [some |-> FALSE, t |-> time, sleep |-> 0]
  ELSE IF try > IRC_TRY_SUCCESS
       THEN [some |-> TRUE, t |-> time * IRC_READ_MULT, sleep |-> time]
       ELSE [some |-> TRUE, t |-> IRC_READ_TIMEOUT, sleep |-> 0]

\* ------------------------------------------------------------------------
\* client.rs: the callbacks and handlers of the dispatch loop.  A handler
\* yields the lines it passes to write_line, the registered flag, its local
\* info, the messages it sends to the caller and whether it panicked.
\* ------------------------------------------------------------------------
Outcome(w, r, i, f, p) ==
  [writes |-> w, registered |-> r, info |-> i, fwd |-> f, panic |-> p]

\* Client::callback_ping
callback_ping(msg) == << Message_pong(msg).raw >>

\* Client::callback_notice without the assignment to registered
callback_notice_unmarked(i, registered) ==
  IF ~registered
  THEN [writes |-> << <<"N", "I", "C", "K", " ">> \o i.nick_name,
                      <<"U", "S", "E", "R", " ">> \o i.user_name
                        \o <<" ", "*", " ", "*", " ", ":">> \o i.real_name >>,
        registered |-> registered]
  ELSE [writes |-> <<>>, registered |-> registered]

\* Client::callback_notice
callback_notice(i, registered) ==
  IF ~registered
  THEN [writes |-> << <<"N", "I", "C", "K", " ">> \o i.nick_name,
                      <<"U", "S", "E", "R", " ">> \o i.user_name
                        \o <<" ", "*", " ", "*", " ", ":">> \o i.real_name >>,
        registered |-> TRUE]
  ELSE [writes |-> <<>>, registered |-> registered]

\* Client::callback_welcome iterating the channels from the back
callback_welcome_reversed(i) ==
  [k \in 1..Len(i.channels) |->
     <<"J", "O", "I", "N", " ">> \o i.channels[Len(i.channels) + 1 - k]]

\* Client::callback_welcome
callback_welcome(i) ==
  [k \in 1..Len(i.channels) |-> <<"J", "O", "I", "N", " ">> \o i.channels[k]]

\* Client::callback_names
callback_names(i, msg) == prep_channel_names(i, msg)

\* Client::callback_end_of_names
callback_end_of_names(i, msg) ==
  LET p2 == Message_param(msg, 2)
  IN  IF p2.some THEN Done(set_channel_names(i, p2.s)) ELSE Panic(i)

\* Client::handle_recv whose None arm falls through to the send
recv_unparsed_forwarding(i, registered) ==
  Outcome(<<>>, registered, i, <<NoMessage.msg>>, FALSE)

\* Client::handle_recv, the None arm of the parse: log and return
recv_unparsed(i, registered) == Outcome(<<>>, registered, i, <<>>, FALSE)

\* Client::handle_recv, the callbacks and the send to the caller, once
\* update_info has returned
recv_callbacks(msg, i, registered) ==
  IF msg.code = PING
    THEN Outcome(callback_ping(msg), registered, i, <<msg>>, FALSE)
  ELSE IF msg.code = NOTICE
    THEN LET n == callback_notice(i, registered)
         IN  Outcome(n.writes, n.registered, i, <<msg>>, FALSE)
  ELSE IF msg.code = RPL_WELCOME
    THEN Outcome(callback_welcome(i), registered, i, <<msg>>, FALSE)
  ELSE IF msg.code = RPL_NAMREPLY
    THEN Outcome(<<>>, registered, callback_names(i, msg), <<msg>>, FALSE)
  ELSE IF msg.code = RPL_ENDOFNAMES
    THEN LET e == callback_end_of_names(i, msg)
         IN  IF e.panic THEN Outcome(<<>>, registered, e.info, <<>>, TRUE)
             ELSE Outcome(<<>>, registered, e.info, <<msg>>, FALSE)
  ELSE Outcome(<<>>, registered, i, <<msg>>, FALSE)

\* Client::handle_recv
handle_recv(s, i, registered) ==
  LET p == Message_parse(ctcp_dequote(low_level_dequote(s)))
      u == update_info(i, p.msg)
  IN  IF ~p.ok THEN recv_unparsed(i, registered)
      ELSE IF u.panic THEN Outcome(<<>>, registered, u.info, <<>>, TRUE)
      ELSE recv_callbacks(p.msg, u.info, registered)

\* Client::handle_send
handle_send(s) == << low_level_quote(ctcp_quote(s)) >>

\* ------------------------------------------------------------------------
\* State
\* ------------------------------------------------------------------------
VARIABLES
  pass,        \* ServerConnection.pass
  info,        \* Client.info, the configuration handed to connect
  events,      \* the event channel: ConnEvents sent and not yet received
  tcp,         \* the TcpStream: rd and wr are "open" or "shutdown"
  thread,      \* Client.thread is Some
  cpc,         \* caller: "idle", or "close" inside stop after its send
  nsend,       \* send_str / send_msg calls made
  nstop,       \* stop calls made
  sent,        \* the lines the caller has enqueued, in order
  rpc,         \* reader thread: "none", "start", "read", "done"
  try,         \* IrcReader::start, local try
  time,        \* IrcReader::start, local time
  nread,       \* read_line calls that returned a line or an error
  slept,       \* the durations the reader has passed to sleep, in order
  rlast,       \* what the latest read_line returned: "none" before the
               \* first, then "line", "eof" or "err"
  naborts,     \* the reader's chan.send calls with an Abort
  hpc,         \* dispatch thread: "none", "run", "done", "panicked"
  registered,  \* start_handler, local registered
  realinfo,    \* start_handler, local realinfo
  lasti,       \* handle_recv, local i as the last call left it
  hlast,       \* the event the dispatch loop handled last
  wlog,        \* the write_line calls on the writer, each with the state of
               \* the write side at the call
  delivered,   \* the Messages sent on the caller's channel
  fn,          \* the names of the functions applied so far, in order,
               \* when functions are applied on their own, outside a session
  arg,         \* the argument the functions were given
  val          \* the value the function applied last returned

sysvars == << pass, info, events, tcp, thread, cpc, nsend, nstop, sent, rpc,
              try, time, nread, slept, rlast, naborts, hpc, registered,
              realinfo, lasti, hlast, wlog, delivered >>

purevars == << fn, arg, val >>

vars == << sysvars, purevars >>

cfgvars    == << pass, info >>
callervars == << thread, cpc, nsend, nstop, sent >>
readervars == << rpc, try, time, nread, slept, rlast, naborts >>
loopvars   == << hpc, registered, realinfo, lasti, hlast, wlog, delivered >>

\* the receiving half of the event channel exists until the dispatch thread
\* returns or unwinds
PortOpen == hpc \in {"none", "run"}

\* mpsc::Sender::send on the event channel
chan_send(q, e) == IF PortOpen THEN Append(q, e) ELSE q

\* write_line calls that end at the first one the write side refuses
WriteAll_untilFailure(lines) ==
  [k \in 1..(IF tcp.wr = "open" \/ lines = <<>> THEN Len(lines) ELSE 1) |->
     [line |-> lines[k], st |-> tcp.wr]]

\* write_line on the writer: the call and whether the write side took it
WriteAll(lines) == [k \in 1..Len(lines) |-> [line |-> lines[k], st |-> tcp.wr]]

\* the session as Client::connect returns it
Connected ==
  /\ \E c \in Configs :
       /\ pass = c.pass
       /\ info = IrcInfo_gen(OwnNick, OwnUser, OwnReal, c.chans)
  /\ events = connect_events(pass)
  /\ tcp = [rd |-> "open", wr |-> "open"]
  /\ thread = FALSE
  /\ cpc = "idle"
  /\ nsend = 0
  /\ nstop = 0
  /\ sent = <<>>
  /\ rpc = "none"
  /\ try = IRC_TRY_INITIAL
  /\ time = IRC_READ_TIMEOUT
  /\ nread = 0
  /\ slept = <<>>
  /\ rlast = "none"
  /\ naborts = 0
  /\ hpc = "none"
  /\ registered = FALSE
  /\ realinfo = info
  /\ lasti = info
  /\ hlast = [ev |-> "None", s |-> <<>>]
  /\ wlog = <<>>
  /\ delivered = <<>>

Init ==
  /\ Connected
  /\ fn = <<>>
  /\ arg = <<>>
  /\ val = <<>>

\* ------------------------------------------------------------------------
\* The caller
\* ------------------------------------------------------------------------
\* Client::start_thread, the None arm: the spawned thread starts the reader
\* thread and enters start_handler
StartThread ==
  /\ ~thread
  /\ thread' = TRUE
  /\ rpc' = "start"
  /\ hpc' = "run"
  /\ UNCHANGED << purevars, cfgvars, events, tcp, cpc, nsend, nstop, sent, try, time,
                  nread, slept, rlast, naborts, registered, realinfo, lasti,
                  hlast, wlog, delivered >>

\* Client::send_str, Client::send_msg
SendStr ==
  /\ cpc = "idle"
  /\ nsend < MaxSends
  /\ \E s \in OutLines :
       /\ events' = chan_send(events, Send(s))
       /\ sent' = IF PortOpen THEN Append(sent, s) ELSE sent
  /\ nsend' = nsend + 1
  /\ UNCHANGED << purevars, cfgvars, tcp, thread, cpc, nstop, readervars, loopvars >>

\* Client::stop up to its match: the Abort is sent; close follows on Ok
Stop ==
  /\ cpc = "idle"
  /\ nstop < MaxStops
  /\ events' = chan_send(events, Abort(AbortStop))
  /\ cpc' = IF PortOpen THEN "close" ELSE "idle"
  /\ nstop' = nstop + 1
  /\ UNCHANGED << purevars, cfgvars, tcp, thread, nsend, sent, readervars, loopvars >>

\* Client::close, ServerConnection::close: close_read, close_write
Close ==
  /\ cpc = "close"
  /\ tcp' = [rd |-> "shutdown", wr |-> "shutdown"]
  /\ cpc' = "idle"
  /\ UNCHANGED << purevars, cfgvars, events, thread, nsend, nstop, sent, readervars,
                  loopvars >>

\* ------------------------------------------------------------------------
\* The reader thread, IrcReader::start
\* ------------------------------------------------------------------------
\* has_peer holds: enter the read loop
ReaderStart ==
  /\ rpc = "start"
  /\ rpc' = "read"
  /\ UNCHANGED << purevars, cfgvars, events, tcp, callervars, try, time, nread, slept,
                  rlast, naborts, loopvars >>

\* has_peer fails: start returns at once
ReaderNoPeer ==
  /\ rpc = "start"
  /\ rpc' = "done"
  /\ UNCHANGED << purevars, cfgvars, events, tcp, callervars, try, time, nread, slept,
                  rlast, naborts, loopvars >>

\* the rest of a loop iteration that never sends the Abort after the loop
ReaderNext_silent(q, t) ==
  LET n == get_next_try(t, time)
  IN  /\ try' = t
      /\ time' = n.t
      /\ slept' = IF n.sleep > 0 THEN Append(slept, n.sleep) ELSE slept
      /\ rpc' = IF n.some THEN "read" ELSE "done"
      /\ events' = q
      /\ naborts' = naborts

\* the rest of a loop iteration once try is set: get_next_try with its
\* sleep, and on None the break and the Abort that follows the loop
ReaderNext(q, t) ==
  LET n == get_next_try(t, time)
  IN  /\ try' = t
      /\ time' = n.t
      /\ slept' = IF n.sleep > 0 THEN Append(slept, n.sleep) ELSE slept
      /\ rpc' = IF n.some THEN "read" ELSE "done"
      /\ events' = IF n.some THEN q ELSE chan_send(q, Abort(AbortReader))
      /\ naborts' = IF n.some THEN naborts ELSE naborts + 1

\* read_line returns one of lines, at most max times in all
ReadOkFrom(lines, max) ==
  /\ rpc = "read"
  /\ tcp.rd = "open"
  /\ nread < max
  /\ \E line \in lines :
       ReaderNext(chan_send(events, Recv(TrimRight(line))),
                  handle_read_success(PortOpen, try))
  /\ nread' = nread + 1
  /\ rlast' = "line"
  /\ UNCHANGED << purevars, cfgvars, tcp, callervars, loopvars >>

\* read_line returns a line
ReadOk == ReadOkFrom(InLines, MaxReads)

\* read_line returns EndOfFile
ReadEof ==
  /\ rpc = "read"
  /\ ReaderNext(events, handle_read_failure(TRUE, try))
  /\ rlast' = "eof"
  /\ UNCHANGED << purevars, cfgvars, tcp, callervars, nread, loopvars >>

\* read_line returns another error, at most max read_line calls in all
ReadErrUpTo(max) ==
  /\ rpc = "read"
  /\ nread < max
  /\ ReaderNext(events, handle_read_failure(FALSE, try))
  /\ nread' = nread + 1
  /\ rlast' = "err"
  /\ UNCHANGED << purevars, cfgvars, tcp, callervars, loopvars >>

\* read_line returns another error
ReadErr == ReadErrUpTo(MaxReads)

\* ------------------------------------------------------------------------
\* The dispatch thread, Client::start_handler
\* ------------------------------------------------------------------------
\* port.recv() returns a Send
HandleSend ==
  /\ hpc = "run"
  /\ events # <<>>
  /\ Head(events).ev = "Send"
  /\ events' = Tail(events)
  /\ wlog' = wlog \o WriteAll(handle_send(Head(events).s))
  /\ hlast' = Head(events)
  /\ UNCHANGED << purevars, cfgvars, tcp, callervars, readervars, hpc, registered,
                  realinfo, lasti, delivered >>

\* port.recv() returns a Recv; handle_recv gets a clone of realinfo
HandleRecv ==
  /\ hpc = "run"
  /\ events # <<>>
  /\ Head(events).ev = "Recv"
  /\ LET o == handle_recv(Head(events).s, IrcInfo_clone(realinfo), registered)
     IN  /\ wlog' = wlog \o WriteAll(o.writes)
         /\ registered' = o.registered
         /\ lasti' = o.info
         /\ delivered' = delivered \o o.fwd
         /\ hpc' = IF o.panic THEN "panicked" ELSE "run"
  /\ events' = Tail(events)
  /\ hlast' = Head(events)
  /\ UNCHANGED << purevars, cfgvars, tcp, callervars, readervars, realinfo >>

\* an Abort arm that writes QUIT and stays in the loop
HandleAbort_staying ==
  /\ hpc = "run"
  /\ events # <<>>
  /\ Head(events).ev = "Abort"
  /\ events' = Tail(events)
  /\ wlog' = wlog \o WriteAll(<< QUIT >>)
  /\ hpc' = "run"
  /\ hlast' = Head(events)
  /\ UNCHANGED << purevars, cfgvars, tcp, callervars, readervars, registered, realinfo,
                  lasti, delivered >>

\* port.recv() returns an Abort: write QUIT and leave the loop
HandleAbort ==
  /\ hpc = "run"
  /\ events # <<>>
  /\ Head(events).ev = "Abort"
  /\ events' = Tail(events)
  /\ wlog' = wlog \o WriteAll(<< QUIT >>)
  /\ hpc' = "done"
  /\ hlast' = Head(events)
  /\ UNCHANGED << purevars, cfgvars, tcp, callervars, readervars, registered, realinfo,
                  lasti, delivered >>

Next ==
  \/ StartThread
  \/ SendStr
  \/ Stop
  \/ Close
  \/ ReaderStart
  \/ ReaderNoPeer
  \/ ReadOk
  \/ ReadEof
  \/ ReadErr
  \/ HandleSend
  \/ HandleRecv
  \/ HandleAbort

Spec == Init /\ [][Next]_vars

\* A second specification: the dispatch thread, once spawned, is scheduled
\* again and again, so an event waiting in the channel is eventually
\* received by port.recv() and handled (Receives is the step, common to
\* HandleSend, HandleRecv and HandleAbort, that takes the head of the
\* channel).  Nothing is assumed of the caller, the transport or the reader.
Receives == hpc = "run" /\ events # <<>> /\ events' = Tail(events)

FairSpec == Spec /\ WF_events(Receives)

\* A third specification, centred on the reader: the caller sends no lines,
\* the transport delivers one kind of line, and read_line may fail often
\* enough in a row to reach the retry limit.
LongReadOk == ReadOkFrom({InNotice}, MaxTries)

LongReadErr == ReadErrUpTo(MaxTries)

ReaderNextStep ==
  \/ StartThread
  \/ Stop
  \/ Close
  \/ ReaderStart
  \/ ReaderNoPeer
  \/ LongReadOk
  \/ ReadEof
  \/ LongReadErr
  \/ HandleSend
  \/ HandleRecv
  \/ HandleAbort

ReaderSpec == Init /\ [][ReaderNextStep]_vars

\* ------------------------------------------------------------------------
\* The session from the call of Client::connect on: the TCP connection is
\* made or refused before anything else runs
\* ------------------------------------------------------------------------
\* the caller has called Client::connect, which has not yet returned
Connecting ==
  /\ \E c \in Configs :
       /\ pass = c.pass
       /\ info = IrcInfo_gen(OwnNick, OwnUser, OwnReal, c.chans)
  /\ events = <<>>
  /\ tcp = [rd |-> "none", wr |-> "none"]
  /\ thread = FALSE
  /\ cpc = "connect"
  /\ nsend = 0
  /\ nstop = 0
  /\ sent = <<>>
  /\ rpc = "none"
  /\ try = IRC_TRY_INITIAL
  /\ time = IRC_READ_TIMEOUT
  /\ nread = 0
  /\ slept = <<>>
  /\ rlast = "none"
  /\ naborts = 0
  /\ hpc = "none"
  /\ registered = FALSE
  /\ realinfo = info
  /\ lasti = info
  /\ hlast = [ev |-> "None", s |-> <<>>]
  /\ wlog = <<>>
  /\ delivered = <<>>
  /\ fn = <<>>
  /\ arg = <<>>
  /\ val = <<>>

\* ServerConnection::connect, the Ok arm of TcpStream::connect: the channel
\* is made and seeded, and Client::connect returns the Client
ConnectOk ==
  /\ cpc = "connect"
  /\ tcp' = [rd |-> "open", wr |-> "open"]
  /\ events' = connect_events(pass)
  /\ cpc' = "idle"
  /\ UNCHANGED << purevars, cfgvars, thread, nsend, nstop, sent, readervars, loopvars >>

\* ServerConnection::connect, the Err arm of TcpStream::connect: panic! in
\* the calling thread; no Client is returned
ConnectRefused ==
  /\ cpc = "connect"
  /\ tcp' = [rd |-> "refused", wr |-> "refused"]
  /\ cpc' = "panicked"
  /\ UNCHANGED << purevars, cfgvars, events, thread, nsend, nstop, sent, readervars,
                  loopvars >>

\* a step of the session Client::connect returned
ConnectedStep ==
  /\ cpc \notin {"connect", "panicked"}
  /\ Next

ConnectNext ==
  \/ ConnectOk
  \/ ConnectRefused
  \/ ConnectedStep

ConnectSpec == Connecting /\ [][ConnectNext]_vars

\* C28: on end-of-stream the reader leaves the read loop in that same
\* iteration: it does not sleep and does not read again, whatever the
\* attempt count and the timeout were.
C28_EofLeavesLoop ==
  [][ (rpc = "read" /\ rlast' = "eof") =>
        (rpc' = "done" /\ slept' = slept /\ time' = time /\ nread' = nread) ]_vars

\* the end-of-stream came after failures that raised the timeout
C28_Witness ==
  /\ rlast = "eof"
  /\ rpc = "done"
  /\ Len(slept) >= 2
  /\ time > IRC_READ_TIMEOUT

\* C27: a TCP connection that cannot be opened is reported to the caller as
\* an error outcome of connect; the calling thread does not panic.
C27_ConnectFailureIsError ==
  (tcp.rd = "refused") => (cpc = "error" /\ cpc # "panicked")

\* ------------------------------------------------------------------------
\* Properties
\* ------------------------------------------------------------------------
\* the lines of a sequence of write_line calls
Lines(w) == [k \in 1..Len(w) |-> w[k].line]

\* this step is the dispatch loop receiving an event of kind e
Handles(e) ==
  /\ hpc = "run"
  /\ events # <<>>
  /\ Head(events).ev = e
  /\ events' = Tail(events)

\* the inbound line at the head of the channel as handle_recv decodes it
InMsg == Message_parse(ctcp_dequote(low_level_dequote(Head(events).s)))

\* the messages with code c among the forwarded ones
Forwarded(c) == { k \in 1..Len(delivered) : delivered[k].code = c }

NickLine == <<"N", "I", "C", "K", " ">> \o info.nick_name
UserLine == <<"U", "S", "E", "R", " ">> \o info.user_name
              \o <<" ", "*", " ", "*", " ", ":">> \o info.real_name
PassLine == <<"P", "A", "S", "S", " ">> \o pass
JoinLines == [k \in 1..Len(info.channels) |->
                <<"J", "O", "I", "N", " ">> \o info.channels[k]]

\* C1: the step that handles the first NOTICE of the session (none was
\* forwarded before) makes exactly the two write_line calls NICK <nick> and
\* USER <user> * * :<realname>, in that order; a step that handles a later
\* NOTICE makes no write_line call at all.
C1_RegisterOnFirstNotice ==
  [][ (Handles("Recv") /\ InMsg.ok /\ InMsg.msg.code = NOTICE)
        => Lines(wlog') = Lines(wlog) \o
             (IF Forwarded(NOTICE) = {} THEN <<NickLine, UserLine>> ELSE <<>>)
    ]_vars

C1_Witness ==
  /\ Cardinality(Forwarded(NOTICE)) = 2
  /\ Lines(wlog) = <<NickLine, UserLine>>

\* C2: the step that handles a PING makes exactly one write_line call, with
\* the line PONG <params> where params are the params of the parsed PING.
C2_PongEchoesPing ==
  [][ (Handles("Recv") /\ InMsg.ok /\ InMsg.msg.code = PING)
        => Lines(wlog') =
             Append(Lines(wlog), <<"P", "O", "N", "G", " ">> \o InMsg.msg.params)
    ]_vars

C2_Witness ==
  /\ Forwarded(PING) # {}
  /\ \E k \in 1..Len(wlog) :
       wlog[k].line = <<"P", "O", "N", "G", " ", ":", "a", " ", "b">>

\* C3: the step that handles an 001, registered or not, makes one
\* write_line call JOIN <channel> per configured channel, in the configured
\* order, and no other.
C3_WelcomeJoinsConfigured ==
  [][ (Handles("Recv") /\ InMsg.ok /\ InMsg.msg.code = RPL_WELCOME)
        => Lines(wlog') = Lines(wlog) \o JoinLines
    ]_vars

C3_Witness ==
  /\ ~registered
  /\ Forwarded(RPL_WELCOME) # {}
  /\ Len(info.channels) = 2
  /\ Lines(wlog) = JoinLines

\* C4: with a non-empty password the first write_line call of the session
\* is PASS <pass>; with an empty password no PASS line is ever written.
C4_PassFirst ==
  /\ (pass # <<>> /\ wlog # <<>>) => wlog[1].line = PassLine
  /\ pass = <<>> =>
       \A k \in 1..Len(wlog) : ~StartsWith(wlog[k].line, <<"P", "A", "S", "S">>)

C4_Witness ==
  /\ pass # <<>>
  /\ Len(wlog) >= 3
  /\ wlog[1].line = PassLine
  /\ sent # <<>>

\* C5: whenever the reader thread has terminated, the dispatch loop
\* eventually ends, which closes the caller's message stream.
C5_ReaderDeathEndsDispatch ==
  (rpc = "done") ~> (hpc \in {"done", "panicked"})

\* C6: when the dispatch loop has handled the Abort that stop injected, its
\* last write_line call is QUIT and the write side was still open at that
\* call.
C6_QuitBeforeClose ==
  (hpc = "done" /\ hlast = Abort(AbortStop)) =>
     /\ wlog # <<>>
     /\ wlog[Len(wlog)].line = QUIT
     /\ wlog[Len(wlog)].st = "open"

\* C7: the step that handles an inbound line that parses forwards exactly
\* that one Message, appended after the ones forwarded before; once the
\* loop has handled an Abort nothing more is forwarded.
C7_ForwardEachParsedLine ==
  [][ /\ (Handles("Recv") /\ InMsg.ok) => delivered' = Append(delivered, InMsg.msg)
      /\ hpc = "done" => delivered' = delivered
    ]_vars

\* C8: the caller's lines are written, in their quoted form, in the order
\* they were enqueued and each at most once; and when the dispatch loop has
\* ended, every Send left in the channel has an Abort in front of it.
CallerWrites ==
  SelectSeq(Lines(wlog), LAMBDA l : l \in {handle_send(x)[1] : x \in OutLines})

C8_CallerLinesInOrder ==
  /\ Len(CallerWrites) <= Len(sent)
  /\ \A k \in 1..Len(CallerWrites) : CallerWrites[k] = handle_send(sent[k])[1]
  /\ ~PortOpen =>
       \A k \in 1..Len(events) :
          events[k].ev = "Send" =>
             \/ hlast.ev = "Abort"
             \/ \E j \in 1..(k - 1) : events[j].ev = "Abort"

\* C9: once the dispatch loop has handled an inbound line and goes on, the
\* ClientInfo it keeps for the session, with which the next event is
\* handled, is the one the table action of that line produced.
C9_InfoReflectsEvent ==
  (hpc = "run" /\ hlast.ev = "Recv") =>
     /\ realinfo.nick_name = lasti.nick_name
     /\ realinfo.channels = lasti.channels
     /\ realinfo.names = lasti.names

\* C10: the step that handles an inbound line that fails to parse forwards
\* nothing, makes no write_line call, leaves the ClientInfo and the
\* registered flag as they were, and the loop goes on.
C10_UnparsedLineDropped ==
  [][ (Handles("Recv") /\ ~InMsg.ok)
        => /\ delivered' = delivered
           /\ wlog' = wlog
           /\ realinfo' = realinfo
           /\ lasti' = IrcInfo_clone(realinfo)
           /\ registered' = registered
           /\ hpc' = "run"
    ]_vars

C10_Witness ==
  /\ hlast.ev = "Recv"
  /\ ~Message_parse(ctcp_dequote(low_level_dequote(hlast.s))).ok
  /\ hpc = "run"
  /\ delivered # <<>>

\* ------------------------------------------------------------------------
\* A fourth specification: the quoting functions of ctcp.rs applied to a
\* string on their own, a quote and then its dequote.  No session runs.
\* ------------------------------------------------------------------------
\* the strings over alphabet of length at most n
StrsUpTo(alphabet, n) == UNION { [1..k -> alphabet] : k \in 0..n }

\* every character of s is in alphabet
Over(s, alphabet) == \A k \in 1..Len(s) : s[k] \in alphabet

\* the bytes the low-level table names, and the characters its escapes use
LowChars == { M_QUOTE, NUL, LF, CR, "0", "n", "r" }

\* the bytes the CTCP-level table names, and the character its escape uses
CtcpChars == { BSLASH, X_DELIM, "a" }

QuoteInit ==
  /\ Connected
  /\ pass = <<>>
  /\ fn = <<>>
  /\ arg \in StrsUpTo(LowChars \cup CtcpChars, MaxQuoteLen)
  /\ val = <<>>

ApplyLowLevelQuote ==
  /\ fn = <<>>
  /\ fn' = <<"low_level_quote">>
  /\ val' = low_level_quote(arg)
  /\ UNCHANGED << sysvars, arg >>

ApplyLowLevelDequote ==
  /\ fn = <<"low_level_quote">>
  /\ fn' = <<"low_level_quote", "low_level_dequote">>
  /\ val' = low_level_dequote(val)
  /\ UNCHANGED << sysvars, arg >>

ApplyCtcpQuote ==
  /\ fn = <<>>
  /\ fn' = <<"ctcp_quote">>
  /\ val' = ctcp_quote(arg)
  /\ UNCHANGED << sysvars, arg >>

ApplyCtcpDequote ==
  /\ fn = <<"ctcp_quote">>
  /\ fn' = <<"ctcp_quote", "ctcp_dequote">>
  /\ val' = ctcp_dequote(val)
  /\ UNCHANGED << sysvars, arg >>

QuoteNext ==
  \/ ApplyLowLevelQuote
  \/ ApplyLowLevelDequote
  \/ ApplyCtcpQuote
  \/ ApplyCtcpDequote

QuoteSpec == QuoteInit /\ [][QuoteNext]_vars

\* C14: for every string over the sentinel 0x14, NUL, LF, CR, '0', 'n' and
\* 'r', low_level_dequote applied to its low_level_quote gives the string
\* back.
C14_LowLevelRoundTrip ==
  (fn = <<"low_level_quote", "low_level_dequote">> /\ Over(arg, LowChars)) => val = arg

\* C15: for every string over the backslash, the delimiter 0x01 and 'a',
\* ctcp_dequote applied to its ctcp_quote gives the string back.
C15_CtcpRoundTrip ==
  (fn = <<"ctcp_quote", "ctcp_dequote">> /\ Over(arg, CtcpChars)) => val = arg

\* ------------------------------------------------------------------------
\* A fifth specification: a Message is constructed from (source, code,
\* params) and the functions of message.rs and ctcp.rs that take a Message
\* are applied to it, or to the Message parsed from its raw line.  No
\* session runs.
\* ------------------------------------------------------------------------
\* the prefixes a constructed message is given
Senders == { <<"a">>, <<"b", "o", "!", "u", "@", "h">> }

\* the characters of the params of a constructed message
ParamChars == { "b", SP, ":", X_DELIM }

\* the (source, code, params) a message is constructed from: the code is a
\* command word and the params are one line
Triples ==
  [ source : {SourceNone} \cup { SourceSender(n) : n \in Senders },
    code   : {PRIVMSG, JOIN, KICK, QUIT},
    params : StrsUpTo(ParamChars, MaxParamLen) ]

\* the requests handed to combine_msg
Requests == { CtcpRequest(<<"A">>, <<>>), CtcpRequest(<<"A">>, <<"b">>) }

MessageInit ==
  /\ Connected
  /\ pass = <<>>
  /\ fn = <<>>
  /\ arg \in Triples
  /\ val = <<>>

\* a Message is at hand: the one constructed, or the one parse returned
HasMsg == fn = <<"new">> \/ (fn = <<"new", "parse">> /\ val.ok)

TheMsg == IF fn = <<"new">> THEN val ELSE val.msg

ApplyNew ==
  /\ fn = <<>>
  /\ fn' = <<"new">>
  /\ val' = NewMessage(arg.source, arg.code, arg.params)
  /\ UNCHANGED << sysvars, arg >>

ApplyParse ==
  /\ fn = <<"new">>
  /\ fn' = <<"new", "parse">>
  /\ val' = Message_parse(val.raw)
  /\ UNCHANGED << sysvars, arg >>

ApplyPong ==
  /\ HasMsg
  /\ fn' = Append(fn, "pong")
  /\ val' = Message_pong(TheMsg)
  /\ UNCHANGED << sysvars, arg >>

ApplyCombineMsg ==
  /\ HasMsg
  /\ fn' = Append(fn, "combine_msg")
  /\ \E cmd \in Requests : val' = combine_msg(TheMsg, cmd)
  /\ UNCHANGED << sysvars, arg >>

ApplyExtractMsg ==
  /\ HasMsg
  /\ fn' = Append(fn, "extract_msg")
  /\ val' = extract_msg(TheMsg)
  /\ UNCHANGED << sysvars, arg >>

ApplyNick ==
  /\ HasMsg
  /\ fn' = Append(fn, "nick")
  /\ val' = Message_nick(TheMsg)
  /\ UNCHANGED << sysvars, arg >>

\* param( n ): the value keeps n and the params it was applied to
ApplyParam ==
  /\ HasMsg
  /\ fn' = Append(fn, "param")
  /\ \E n \in 1..MaxParamLen :
       val' = [n |-> n, params |-> TheMsg.params, r |-> Message_param(TheMsg, n)]
  /\ UNCHANGED << sysvars, arg >>

\* target( ): the value keeps the code and the params it was applied to
ApplyTarget ==
  /\ HasMsg
  /\ fn' = Append(fn, "target")
  /\ val' = [code |-> TheMsg.code, params |-> TheMsg.params,
             r |-> Message_target(TheMsg)]
  /\ UNCHANGED << sysvars, arg >>

MessageNext ==
  \/ ApplyNew
  \/ ApplyParse
  \/ ApplyPong
  \/ ApplyCombineMsg
  \/ ApplyExtractMsg
  \/ ApplyNick
  \/ ApplyParam
  \/ ApplyTarget

MessageSpec == MessageInit /\ [][MessageNext]_vars

\* the line a constructed message serializes to
Serialized == raw_from_data(arg.source, arg.code, arg.params)

LastOf(f) == IF f = <<>> THEN "none" ELSE f[Len(f)]

LastFn == LastOf(fn)

\* the Message the function applied last produced
Produced ==
  IF LastFn = "parse" \/ LastFn = "extract_msg" THEN val.msg ELSE val

\* C17: the raw of every Message produced by new or parse, or by pong,
\* extract_msg or combine_msg from such a message, is the serialization of
\* its own source, code and params; the raw of a parsed message is also
\* the line that was parsed.
C17_RawIsSerialization ==
  (/\ LastFn \in {"new", "parse", "pong", "extract_msg", "combine_msg"}
   /\ LastFn = "parse" => val.ok)
  => /\ Produced.raw
          = raw_from_data(Produced.source, Produced.code, Produced.params)
     /\ LastFn = "parse" => Produced.raw = Serialized

\* the nick part of a prefix nick!user@host: what precedes the '!'
RECURSIVE NickPart(_)
NickPart(s) ==
  IF s = <<>> \/ s[1] = "!" THEN <<>> ELSE <<s[1]>> \o NickPart(Tail(s))

\* C18: nick() of the message parsed from a line whose prefix is
\* nick!user@host returns the nick part, every character before the '!',
\* and nick() of a message without source returns none.
C18_NickOfPrefix ==
  (fn = <<"new", "parse", "nick">>) =>
     IF arg.source.some
     THEN (\E k \in 1..Len(arg.source.s) : arg.source.s[k] = "!")
            => val = [some |-> TRUE, s |-> NickPart(arg.source.s)]
     ELSE val = [some |-> FALSE, s |-> <<>>]

\* the indices of p where a space-delimited token starts
TokenStarts(p) ==
  { i \in 1..Len(p) : p[i] # SP /\ (i = 1 \/ p[i - 1] = SP) }

\* the parameters of p by their first index: the tokens up to and
\* including the first one that begins with ':'
ParamStarts(p) ==
  { i \in TokenStarts(p) : \A j \in TokenStarts(p) : j < i => p[j] # ":" }

\* the parameter that starts at i: to the end of p from a ':', else to the
\* character before the next space
ParamAt(p, i) ==
  IF p[i] = ":" THEN SubSeq(p, i, Len(p))
  ELSE LET ends == { e \in i..Len(p) : e = Len(p) \/ p[e + 1] = SP }
       IN  SubSeq(p, i, CHOOSE e \in ends : \A d \in ends : e <= d)

\* the n-th parameter of p, none when p has fewer
NthParam(p, n) ==
  LET at == { i \in ParamStarts(p) :
                Cardinality({ j \in ParamStarts(p) : j < i }) = n - 1 }
  IN  IF at = {} THEN [some |-> FALSE, s |-> <<>>]
      ELSE [some |-> TRUE, s |-> ParamAt(p, CHOOSE i \in at : TRUE)]

C22_TargetByCode ==
  LastFn = "target" =>
     val.r = IF val.code \in TargetCodes THEN NthParam(val.params, 1)
             ELSE IF val.code = KICK THEN NthParam(val.params, 2)
             ELSE [some |-> FALSE, s |-> <<>>]

\* C26: for a message whose code is neither PRIVMSG nor NOTICE, combine_msg
\* returns the message it was given (source, code, params and raw) and
\* extract_msg returns it with an empty list of requests.
C26_OtherCodesUntouched ==
  [][ (HasMsg /\ TheMsg.code \notin {PRIVMSG, NOTICE}) =>
        /\ (fn' = Append(fn, "combine_msg")) => val' = TheMsg
        /\ (fn' = Append(fn, "extract_msg")) =>
              (val'.msg = TheMsg /\ val'.cmds = <<>>) ]_vars

\* extract_msg applied to a message of another code whose params hold a
\* delimiter-closed tag
C26_Witness ==
  /\ LastFn = "extract_msg"
  /\ val.msg.code = JOIN
  /\ Cardinality({ k \in 1..Len(val.msg.params) : val.msg.params[k] = X_DELIM }) >= 2
  /\ val.cmds = <<>>

\* ------------------------------------------------------------------------
\* A seventh specification: the tag functions of ctcp.rs applied to a
\* string: extract, has_tag and get_tag to the string itself, or extract
\* to the string combined with requests.  No session runs.
\* ------------------------------------------------------------------------
TagChars == { X_DELIM, "A", "b", SP }

\* the tag name has_tag and get_tag look for
TagName == <<"A">>

\* bodies without a delimiter, and the requests combined with them
Bodies == StrsUpTo({"b", SP}, 2)

TagRequests == { CtcpRequest(TagName, pms) : pms \in StrsUpTo({"A", "b", SP}, 2) }

TagInit ==
  /\ Connected
  /\ pass = <<>>
  /\ fn = <<>>
  /\ val = <<>>
  /\ \/ \E x \in StrsUpTo(TagChars, MaxTagLen) : arg = [s |-> x, reqs |-> <<>>]
     \/ \E x \in Bodies, k \in 1..MaxReqs :
          \E q \in [1..k -> TagRequests] : arg = [s |-> x, reqs |-> q]

\* combine with the next request of arg.reqs
ApplyCombine ==
  /\ Len(fn) < Len(arg.reqs)
  /\ fn' = Append(fn, "combine")
  /\ val' = combine(IF fn = <<>> THEN arg.s ELSE val, arg.reqs[Len(fn) + 1])
  /\ UNCHANGED << sysvars, arg >>

\* extract, once every request of arg.reqs is combined
ApplyExtract ==
  /\ Len(fn) = Len(arg.reqs)
  /\ fn' = Append(fn, "extract")
  /\ val' = extract(IF fn = <<>> THEN arg.s ELSE val)
  /\ UNCHANGED << sysvars, arg >>

ApplyHasTag ==
  /\ fn = <<>>
  /\ arg.reqs = <<>>
  /\ fn' = <<"has_tag">>
  /\ val' = has_tag(arg.s, TagName)
  /\ UNCHANGED << sysvars, arg >>

ApplyGetTag ==
  /\ fn = <<>>
  /\ arg.reqs = <<>>
  /\ fn' = <<"get_tag">>
  /\ val' = get_tag(arg.s, TagName)
  /\ UNCHANGED << sysvars, arg >>

TagNext ==
  \/ ApplyCombine
  \/ ApplyExtract
  \/ ApplyHasTag
  \/ ApplyGetTag

TagSpec == TagInit /\ [][TagNext]_vars

\* the indices of the delimiters of s, and how many precede index i
Delims(s) == { j \in 1..Len(s) : s[j] = X_DELIM }

DelimsBefore(s, i) == Cardinality({ j \in Delims(s) : j < i })

\* the n-th delimiter of s
NthDelim(s, n) == CHOOSE j \in Delims(s) : DelimsBefore(s, j) = n - 1

\* the text of the k-th delimiter-closed tag of s
TagText(s, k) == SubSeq(s, NthDelim(s, 2 * k - 1) + 1, NthDelim(s, 2 * k) - 1)

\* index i of s is text outside every closed tag: an even number of
\* delimiters precedes it, or all of an odd number of delimiters do
OutsideTags(s, i) ==
  /\ s[i] # X_DELIM
  /\ \/ DelimsBefore(s, i) % 2 = 0
     \/ DelimsBefore(s, i) = Cardinality(Delims(s))

\* the characters of s from index i on that are outside every closed tag
RECURSIVE OutsideFrom(_, _)
OutsideFrom(s, i) ==
  IF i > Len(s) THEN <<>>
  ELSE (IF OutsideTags(s, i) THEN <<s[i]>> ELSE <<>>) \o OutsideFrom(s, i + 1)

\* the text of t before its first space, and the text after that space
RECURSIVE BeforeSpace(_)
BeforeSpace(t) ==
  IF t = <<>> \/ t[1] = SP THEN <<>> ELSE <<t[1]>> \o BeforeSpace(Tail(t))

AfterSpace(t) == Drop(t, Len(BeforeSpace(t)) + 1)

\* C23: the remainder extract returns is the text outside the
\* delimiter-closed tags, in order, the text after the last delimiter
\* included when the delimiters are odd in number; it returns one request
\* per closed tag, in order of appearance.
C23_ExtractRemainder ==
  (fn = <<"extract">> /\ arg.reqs = <<>>) =>
     /\ val.str = OutsideFrom(arg.s, 1)
     /\ Len(val.cmds) = Cardinality(Delims(arg.s)) \div 2
     /\ \A k \in 1..Len(val.cmds) :
          val.cmds[k].command = BeforeSpace(TagText(arg.s, k))

\* a closed tag, then a tag left open with text in it
C23_Witness ==
  /\ fn = <<"extract">>
  /\ arg.reqs = <<>>
  /\ Cardinality(Delims(arg.s)) = 3
  /\ arg.s[Len(arg.s)] # X_DELIM
  /\ val.cmds # <<>>
  /\ val.str # <<>>

\* C24: extract of a body without delimiter combined with requests r1..rk
\* (commands non-empty, without space or delimiter) returns the body as
\* remainder and exactly r1..rk in order: each command is the tag text
\* before its first space and each params all the tag text after it.
C24_ExtractOfCombine ==
  (LastFn = "extract" /\ arg.reqs # <<>>) =>
     /\ val.str = arg.s
     /\ val.cmds = arg.reqs

\* the texts of s between two neighbouring delimiters
Wrapped(s) ==
  UNION { { SubSeq(s, i + 1, j - 1) :
              j \in { k \in Delims(s) : k > i /\ \A h \in Delims(s) : ~(i < h /\ h < k) } } :
          i \in Delims(s) }

\* C25: has_tag(s, name) is true, and get_tag(s, name) returns a request,
\* only when s has a delimiter-wrapped segment whose first space-delimited
\* token is name; the request has command name and the rest of that
\* segment as params.
C25_TagByFirstToken ==
  /\ (fn = <<"has_tag">> /\ val) =>
        \E w \in Wrapped(arg.s) : BeforeSpace(w) = TagName
  /\ (fn = <<"get_tag">> /\ val.some) =>
        \E w \in Wrapped(arg.s) :
           /\ BeforeSpace(w) = TagName
           /\ val.r = CtcpRequest(TagName, AfterSpace(w))

\* ------------------------------------------------------------------------
\* A sixth specification: one IrcInfo, and the functions of info.rs and
\* the names callbacks of client.rs applied to it one after another, as
\* handle_recv applies them to the info it is given.  No session runs.
\* ------------------------------------------------------------------------
ChanX == <<"#", "x">>
NickBo == <<"b", "o">>

\* inbound lines as handle_recv parses them
JoinOther == <<":", "b", "o", "!", "u", "@", "h", " ", "J", "O", "I", "N", " ", "#", "x">>
JoinSelf == <<":", "a", "!", "u", "@", "h", " ", "J", "O", "I", "N", " ", "#", "x">>
PartOther == <<":", "b", "o", "!", "u", "@", "h", " ", "P", "A", "R", "T", " ", "#", "x">>
PartSelf == <<":", "a", "!", "u", "@", "h", " ", "P", "A", "R", "T", " ", "#", "x">>
NamesReply == <<"3", "5", "3", " ", "a", " ", "=", " ", "#", "x", " ", ":", "b", "o", " ", "c">>
EndOfNames == <<"3", "6", "6", " ", "a", " ", "#", "x", " ", ":", "E">>
ChanY == <<"#", "y">>
NamesReplyY == <<"3", "5", "3", " ", "a", " ", "=", " ", "#", "y", " ", ":", "@", "d">>
EndOfNamesY == <<"3", "6", "6", " ", "a", " ", "#", "y", " ", ":", "E">>

\* the NAMES replies and the ends of a NAMES list the server sends
NamesLines == { NamesReply, NamesReplyY }
EndLines == { EndOfNames, EndOfNamesY }

NickLong == <<":", "a", "l", "!", "u", "@", "h", " ", "N", "I", "C", "K", " ", "b">>
ErrBanned == <<"4", "7", "4", " ", "a", " ", "#", "x", " ", ":", "E">>

UpdateLines == { JoinOther, JoinSelf, PartOther, PartSelf, NickLong, ErrBanned }

\* the own nicks a session is configured with
OwnNicks == { <<"a">>, <<"a", "l">> }

InfoInit ==
  /\ Connected
  /\ pass = <<>>
  /\ fn = <<>>
  /\ arg = <<>>
  /\ \E n \in OwnNicks, chans \in { <<>>, <<ChanX>> } :
       val = IrcInfo_gen(n, OwnUser, OwnReal, chans)

ApplyUpdateInfo ==
  /\ Len(fn) < MaxOps
  /\ \E line \in UpdateLines :
       LET o == update_info(val, Message_parse(line).msg)
       IN  /\ ~o.panic
           /\ val' = o.info
           /\ arg' = line
  /\ fn' = Append(fn, "update_info")
  /\ UNCHANGED sysvars

ApplyCallbackNames ==
  /\ Len(fn) < MaxOps
  /\ \E line \in NamesLines :
       /\ val' = callback_names(val, Message_parse(line).msg)
       /\ arg' = line
  /\ fn' = Append(fn, "callback_names")
  /\ UNCHANGED sysvars

ApplyCallbackEndOfNames ==
  /\ Len(fn) < MaxOps
  /\ \E line \in EndLines :
       LET o == callback_end_of_names(val, Message_parse(line).msg)
       IN  /\ ~o.panic
           /\ val' = o.info
           /\ arg' = line
  /\ fn' = Append(fn, "callback_end_of_names")
  /\ UNCHANGED sysvars

ApplyAddToChannel ==
  /\ Len(fn) < MaxOps
  /\ val' = add_to_channel(val, ChanX, NickBo)
  /\ arg' = [ch |-> ChanX, ni |-> NickBo]
  /\ fn' = Append(fn, "add_to_channel")
  /\ UNCHANGED sysvars

ApplyRemoveFromChannel ==
  /\ Len(fn) < MaxOps
  /\ val' = remove_from_channel(val, ChanX, NickBo)
  /\ arg' = [ch |-> ChanX, ni |-> NickBo]
  /\ fn' = Append(fn, "remove_from_channel")
  /\ UNCHANGED sysvars

InfoNext ==
  \/ ApplyUpdateInfo
  \/ ApplyCallbackNames
  \/ ApplyCallbackEndOfNames
  \/ ApplyAddToChannel
  \/ ApplyRemoveFromChannel

InfoSpec == InfoInit /\ [][InfoNext]_vars

\* nick is a member of the roster get_channel_names returns for chan
Member(self, chan, nick) ==
  LET r == get_channel_names(self, chan)
  IN  r.some /\ in_vec(r.v, nick) > 0

\* the nick part of the prefix of the message parsed from line
SenderOf(line) == NickPart(Tail(Message_parse(line).msg.source.s))

\* the channel a JOIN line names
JoinedOf(line) == Message_param(Message_parse(line).msg, 1).s

\* C19: when update_info is given a JOIN whose sender nick differs from the
\* own nick, the sender's nick is afterwards a member of the roster that
\* get_channel_names returns for the joined channel, and the own channel
\* set is unchanged.  Stated for a channel that has a roster entry, where
\* a roster is returned at all.
C19_JoinAddsSender ==
  [][(/\ fn' = Append(fn, "update_info")
      /\ Message_parse(arg').msg.code = JOIN
      /\ SenderOf(arg') # val.nick_name
      /\ get_channel_names(val, JoinedOf(arg')).some)
     => /\ Member(val', JoinedOf(arg'), SenderOf(arg'))
        /\ val'.channels = val.channels]_vars

\* C20: add_to_channel applied a second time with the same channel and
\* nick leaves the rosters as the first application left them, and
\* remove_from_channel of a nick that is not in the roster leaves the
\* rosters unchanged.
C20_AddTwiceRemoveAbsent ==
  [][/\ (/\ fn' = Append(fn, "add_to_channel")
         /\ LastFn = "add_to_channel"
         /\ arg' = arg)
        => val'.names = val.names
     /\ (/\ fn' = Append(fn, "remove_from_channel")
         /\ ~Member(val, arg'.ch, arg'.ni))
        => val'.names = val.names]_vars

\* this step applies update_info to a message of code c
Updates(c) ==
  /\ fn' = Append(fn, "update_info")
  /\ Message_parse(arg').msg.code = c

\* how often ch is in the own channel set
TimesIn(self, ch) ==
  Cardinality({ k \in 1..Len(self.channels) : self.channels[k] = ch })

\* C31: when update_info is given a NICK whose sender nick is the own
\* nick, the own nick becomes the new nick the message carries; when the
\* sender nick differs from the own nick, the own nick is unchanged.
C31_NickFollowsOwnRename ==
  [][ Updates(NICK) =>
        val'.nick_name = IF SenderOf(arg') = val.nick_name
                         THEN Message_param(Message_parse(arg').msg, 1).s
                         ELSE val.nick_name ]_vars

\* C32: after update_info is given a JOIN for a channel sent by the own
\* nick, the channel is in the own channel set exactly once and
\* get_channel_names returns a roster for it, an empty one when the
\* channel was not joined before.
C32_SelfJoinMakesEntry ==
  [][ (Updates(JOIN) /\ SenderOf(arg') = val.nick_name) =>
        /\ TimesIn(val', JoinedOf(arg')) = 1
        /\ get_channel_names(val', JoinedOf(arg')).some
        /\ TimesIn(val, JoinedOf(arg')) = 0 =>
              get_channel_names(val', JoinedOf(arg')).v = <<>> ]_vars

\* C33: when update_info is given a PART for a channel: sent by the own
\* nick, the channel leaves the own channel set and get_channel_names
\* returns none for it; sent by another nick, that nick is no member of
\* the channel's roster afterwards and the own channel set is unchanged.
\* The first half is stated for a channel of the own channel set.
C33_PartLeavesOrRemoves ==
  [][ Updates(PART) =>
        IF SenderOf(arg') = val.nick_name
        THEN TimesIn(val, JoinedOf(arg')) > 0 =>
               /\ TimesIn(val', JoinedOf(arg')) = 0
               /\ ~get_channel_names(val', JoinedOf(arg')).some
        ELSE /\ ~Member(val', JoinedOf(arg'), SenderOf(arg'))
             /\ val'.channels = val.channels ]_vars

\* the channel parameter of a numeric reply: it follows the recipient nick
NumericChannel(line) == Message_param(Message_parse(line).msg, 2).s

\* C34: when update_info is given a channel error numeric whose channel
\* parameter is a channel of the own channel set, the channel leaves the
\* own channel set and its roster entry is dropped.
C34_ChannelErrorLeaves ==
  [][ (/\ fn' = Append(fn, "update_info")
       /\ Message_parse(arg').msg.code \in ChannelErrors
       /\ TimesIn(val, NumericChannel(arg')) > 0) =>
        /\ TimesIn(val', NumericChannel(arg')) = 0
        /\ ~get_channel_names(val', NumericChannel(arg')).some ]_vars

\* the nicknames a NAMES reply lists, and the channel an end of NAMES names
Listed(line) ==
  IF line = NamesReply THEN << <<"b", "o">>, <<"c">> >> ELSE << <<"@", "d">> >>

Ended(line) == IF line = EndOfNames THEN ChanX ELSE ChanY

\* C35: prep calls followed by a commit on the same IrcInfo: every prep
\* appends the names it is given to the pending buffer, nothing else
\* touches the buffer, and the commit makes the buffer, that is the names of
\* all those preps in order, the roster of its channel in place of any
\* former one, leaves the other rosters alone and empties the buffer.
C35_CommitReplacesRoster ==
  [][ /\ (fn' = Append(fn, "callback_names")) =>
            /\ val'.prep_names = val.prep_names \o Listed(arg')
            /\ val'.names = val.names
      /\ (fn' = Append(fn, "callback_end_of_names") /\ val.prep_names # <<>>) =>
            /\ get_channel_names(val', Ended(arg')) =
                  [some |-> TRUE, v |-> val.prep_names]
            /\ DOMAIN val'.names = DOMAIN val.names \cup {Ended(arg')}
            /\ \A c \in DOMAIN val.names \ {Ended(arg')} :
                  val'.names[c] = val.names[c]
            /\ val'.prep_names = <<>>
      /\ (fn' # fn /\ LastOf(fn') \notin {"callback_names", "callback_end_of_names"}) =>
            val'.prep_names = val.prep_names ]_vars

\* two preps with different names, committed in their order
C35_Witness ==
  /\ fn = <<"callback_names", "callback_names", "callback_end_of_names">>
  /\ DOMAIN val.names = {ChanX}
  /\ val.names[ChanX] = << <<"@", "d">>, <<"b", "o">>, <<"c">> >>
  /\ val.prep_names = <<>>

\* C39: after remove_from_channel on a channel that has a roster, the
\* nick is no member of that roster, whatever was added, removed and
\* committed before.
C39_RemovedIsNoMember ==
  [][ (fn' = Append(fn, "remove_from_channel")
         /\ get_channel_names(val, arg'.ch).some)
      => ~Member(val', arg'.ch, arg'.ni) ]_vars

\* ------------------------------------------------------------------------
\* The reader's retries (ReaderSpec)
\* ------------------------------------------------------------------------
\* the Recv events waiting in a channel
RecvCount(q) == Cardinality({k \in 1..Len(q) : q[k].ev = "Recv"})

\* C11: a reader that leaves the read loop over consecutive read failures
\* other than end-of-stream has slept 5, 10, 20, 40 and 80 seconds since the
\* last success, and its attempt_count exceeds the limit 5 when it leaves.
C11_FiveSleepsThenAbort ==
  [][(rpc = "read" /\ rpc' = "done" /\ rlast' = "err") =>
       /\ try' > IRC_TRY_LIMIT
       /\ Len(slept') >= 5
       /\ SubSeq(slept', Len(slept') - 4, Len(slept')) = <<5, 10, 20, 40, 80>>]_vars

\* C12: a read whose line is delivered as Recv leaves attempt_count 0 and
\* the timeout at the base 5, and a failure other than end-of-stream that
\* follows it sleeps the base 5 seconds, whatever failed before.
C12_SleepResetsAfterSuccess ==
  [][/\ (rpc = "read" /\ rlast' = "line" /\ nread' = nread + 1 /\ rpc' = "read")
          => (try' = 0 /\ time' = IRC_READ_TIMEOUT)
     /\ (rpc = "read" /\ rlast = "line" /\ rlast' = "err" /\ nread' = nread + 1)
          => slept' = Append(slept, IRC_READ_TIMEOUT)]_vars

\* two failures (sleeps 5 and 10), a delivered line, a failure that sleeps 5
C12_Witness ==
  /\ rlast = "err"
  /\ Len(slept) >= 3
  /\ slept[Len(slept)] = IRC_READ_TIMEOUT
  /\ slept[Len(slept) - 1] = IRC_READ_TIMEOUT * IRC_READ_MULT

\* C13: the step that leaves the read loop makes the reader's one and only
\* attempt to send Abort (the Abort is the newest event of the channel when
\* the receiver still exists), and once the reader is done it sends nothing:
\* no further Abort and no Recv.
C13_OneAbortAfterLoop ==
  [][/\ (rpc = "read" /\ rpc' = "done") =>
          /\ naborts = 0
          /\ naborts' = 1
          /\ PortOpen => (/\ events' # <<>>
                          /\ events'[Len(events')] = Abort(AbortReader))
     /\ (rpc = "done") =>
          /\ rpc' = "done"
          /\ naborts' = naborts
          /\ RecvCount(events') <= RecvCount(events)]_vars

\* the reader has left the loop over the retry limit and tried its Abort
C13_Witness == rpc = "done" /\ rlast = "err" /\ naborts = 1

\* the write_line calls of this step fail
WritesFail == tcp.wr # "open"

\* C36: a failed write does not stop the dispatch loop and is not retried.
\* A caller line is attempted once; a first NOTICE whose NICK write fails
\* still attempts USER and marks the session registered; a NOTICE after a
\* failed NICK writes nothing; a failed PONG or JOIN leaves the loop
\* running with one attempt per line.
C36_FailedWriteGoesOn ==
  [][ /\ (Handles("Send") /\ WritesFail) =>
            /\ hpc' = "run"
            /\ wlog' = Append(wlog, [line |-> handle_send(Head(events).s)[1],
                                     st |-> tcp.wr])
      /\ (Handles("Recv") /\ WritesFail /\ InMsg.ok /\ InMsg.msg.code = NOTICE
             /\ ~registered) =>
            /\ hpc' = "run"
            /\ registered'
            /\ Lines(wlog') = Lines(wlog) \o <<NickLine, UserLine>>
      /\ (Handles("Recv") /\ InMsg.ok /\ InMsg.msg.code = NOTICE
             /\ \E k \in 1..Len(wlog) : wlog[k].line = NickLine /\ wlog[k].st # "open") =>
            /\ hpc' = "run"
            /\ wlog' = wlog
      /\ (Handles("Recv") /\ WritesFail /\ InMsg.ok
             /\ InMsg.msg.code \in {PING, RPL_WELCOME}) =>
            /\ hpc' = "run"
            /\ Len(wlog') = Len(wlog) + (IF InMsg.msg.code = PING THEN 1
                                         ELSE Len(info.channels))
    ]_vars

\* NICK and USER both failed, the session is registered, and a second
\* NOTICE was handled without a write
C36_Witness ==
  /\ hpc = "run"
  /\ registered
  /\ Cardinality(Forwarded(NOTICE)) = 2
  /\ \E k \in 1..(Len(wlog) - 1) :
       /\ wlog[k].line = NickLine /\ wlog[k].st # "open"
       /\ wlog[k + 1].line = UserLine /\ wlog[k + 1].st # "open"
       /\ k + 1 = Len(wlog)

\* the write_line calls whose line is QUIT
QuitWrites == { k \in 1..Len(wlog) : wlog[k].line = QUIT }

\* C37: QUIT is written at most once in a session and is the last line the
\* dispatch loop writes: once it is written the loop has ended, and what
\* is still in the channel behind the first Abort is never taken off it,
\* written or forwarded.
C37_QuitOnceAndLast ==
  [][ /\ Cardinality(QuitWrites) <= 1
      /\ QuitWrites # {} =>
            /\ QuitWrites = {Len(wlog)}
            /\ hpc = "done"
            /\ wlog' = wlog
            /\ delivered' = delivered
            /\ events' = events
            /\ hlast' = hlast ]_vars

\* the loop has ended on the Abort of stop; the reader's Abort and a caller
\* line are left in the channel
C37_Witness ==
  /\ hpc = "done"
  /\ hlast = Abort(AbortStop)
  /\ QuitWrites = {Len(wlog)}
  /\ \E k \in 1..Len(events) : events[k] = Abort(AbortReader)
  /\ \E k \in 1..Len(events) : events[k].ev = "Send"

\* C38: no inbound line ends the dispatch loop: after the step that
\* handles a Recv event, whatever its line, the loop is still running.
C38_NoLineEndsLoop ==
  [][ Handles("Recv") => hpc' = "run" ]_vars

\* 2^n
RECURSIVE Pow2(_)
Pow2(n) == IF n = 0 THEN 1 ELSE 2 * Pow2(n - 1)

\* C40: at the head of every iteration of the read loop attempt_count is
\* between 0 and 4 and the timeout is 5 * 2^attempt_count, so it never
\* exceeds 80 and neither the u8 counter nor the i64 timeout overflows.
C40_TryAndTimeoutBounded ==
  rpc = "read" =>
     /\ try \in 0..4
     /\ time = 5 * Pow2(try)
     /\ time <= 80

\* four failures in a row: the loop is at its head with the timeout at 80
C40_Witness ==
  /\ rpc = "read"
  /\ try = 4
  /\ time = 80
  /\ slept = <<5, 10, 20, 40>>

\* C29: the lines the dispatch loop emits as protocol side effects reach
\* the transport through Send events: the step that takes a Recv event off
\* the channel writes nothing itself, and what it has to say is on the
\* channel as Send events afterwards.
C29_SideEffectsEnqueued ==
  [][ (hpc = "run" /\ events # <<>> /\ Head(events).ev = "Recv"
         /\ hlast' = Head(events) /\ StartsWith(events', Tail(events)))
      => wlog' = wlog ]_vars

\* s is the low-level-quoted form of some line: no bare NUL, LF or CR, and
\* every M_QUOTE starts one of the four pairs of M_CNVRT
RECURSIVE LowQuoted(_)
LowQuoted(s) ==
  IF s = <<>> THEN TRUE
  ELSE IF s[1] = M_QUOTE
       THEN /\ Len(s) >= 2
            /\ s[2] \in {M_QUOTE, "0", "n", "r"}
            /\ LowQuoted(Drop(s, 2))
       ELSE s[1] \notin {NUL, LF, CR} /\ LowQuoted(Tail(s))

\* C30: every line passed to the transport, from a caller Send or from a
\* protocol side effect, is the low-level-quoted form of its logical line:
\* it holds no unescaped M_QUOTE, NUL, CR or LF.
C30_WrittenLinesQuoted ==
  \A k \in 1..Len(wlog) : LowQuoted(wlog[k].line)

====
